---- MODULE Spec2Model ----
(***************************************************************************)
(* Model of the snake game in src/src/main.rs (Bevy ECS application).      *)
(*                                                                         *)
(* One frame of the Bevy main loop is modelled as BeginFrame (input        *)
(* snapshot and the StateTransition schedule), then one action per system  *)
(* of the Update schedule, run in any order allowed by the .before/.after  *)
(* constraints given in main(), then EndFrame (the deferred Commands       *)
(* queue is applied at the end of the Update schedule).                    *)
(*                                                                         *)
(* Positions are Transform translations; all values are small integers     *)
(* that f32 represents exactly, so f32 arithmetic is integer arithmetic.   *)
(***************************************************************************)
EXTENDS Integers, Sequences, FiniteSets, TLC

\* ---------------------------------------------------------------- constants
STEP == 10

\* Bounds of the model.  The program uses WALL_SIZE = 200 (20 cells), a
\* spawn loop 2..33 and an unbounded score; the model scales them down.
WallCells == 1
SpawnEnd == 3
MaxScore == 2

WALL_SIZE == WallCells * STEP

\* let limit = wall_size + STEP as f32;
Limit == WALL_SIZE + STEP

Keys == {"Left", "Right", "Up", "Down"}

Pos(px, py) == [x |-> px, y |-> py]

Direction(dx, dy) == [x |-> dx, y |-> dy]

Abs(n) == IF n < 0 THEN -n ELSE n

\* diff.x <= f32::EPSILON && diff.y <= f32::EPSILON, diff = (a - b).abs();
\* on integer-valued translations |d| <= EPSILON (about 1.2e-7) is |d| < 1.
Coincide(a, b) == Abs(a.x - b.x) < 1 /\ Abs(a.y - b.y) < 1

\* number of segments setup_items creates: the head plus one per i in 2..SpawnEnd
InitLen == 1 + (IF SpawnEnd > 2 THEN SpawnEnd - 2 ELSE 0)

\* Transform::from_xyz of the i-th entity spawned by setup_items (1 = head)
SpawnPos(i) == IF i = 1 THEN Pos(WALL_SIZE - STEP, -WALL_SIZE)
               ELSE Pos(WALL_SIZE - i * STEP, -WALL_SIZE)

\* let dir = Direction { x: STEP, y: 0 };
SpawnDir == Direction(STEP, 0)

\* SpatialBundle::default() of the apple: translation (0, 0)
AppleSpawnPos == Pos(0, 0)

\* Entity handles.  Enough for the live entities of one round plus the
\* entities reserved for the next round while the old ones are still alive.
EntityIds == 1 .. (2 * (InitLen + MaxScore) + 1)

\* History of the last advance, kept for the properties only: pos[i] is the
\* position of segment i at the end of the last advance of the round, dir the
\* direction the head moved by.  No advance yet in the round: NoPrev.  When
\* the snake grows, the entry of the former tail becomes its position at the
\* growth and the new segment's spawn position is appended.
NoPrev == [pos |-> <<>>, dir |-> Direction(0, 0)]

VARIABLES
    state,       \* State<AppState>
    next_state,  \* NextState<AppState>: "None" or the requested state
    ids,         \* Snake.ids
    dirs,        \* Snake.dirs
    transform,   \* translation of every spawned Body entity
    head,        \* the set of spawned entities carrying the Head component
    apple,       \* translations of the spawned Apple entities (a sequence)
    score,       \* Scoreboard.score
    cmds,        \* deferred Commands queue of the current frame
    keys,        \* Input<KeyCode>: the pressed keys change_direction read this frame
    pc,          \* "idle" between frames, "update" inside the Update schedule
    done,        \* systems of the Update schedule already run (or skipped)
    advanced,    \* move_snake's on_timer condition held in the current frame
    panicked,    \* an unwrap()/single()/index panicked: the program aborted
    prev         \* history: where the segments were and what the head used at
                 \* the end of the last advance of the round (see NoPrev)

vars == <<state, next_state, ids, dirs, transform, head, apple, score,
          cmds, keys, pc, done, advanced, panicked, prev>>

\* ------------------------------------------------------------ the schedule
InGameSystems == {"wall_collision", "change_direction", "move_snake",
                  "eat_apple", "check_lost"}

LostSystems == {"clear_map", "setup_items", "enter_game"}

\* the systems of the Update schedule that run_if(in_state(s)) lets run
SystemsOf(s) == IF s = "InGame" THEN InGameSystems ELSE LostSystems

\* variant: the three Lost systems are not chained
Before_ResetUnchained == {<<"wall_collision", "change_direction">>,
                          <<"move_snake", "change_direction">>,
                          <<"wall_collision", "move_snake">>,
                          <<"move_snake", "eat_apple">>,
                          <<"move_snake", "check_lost">>}

\* variant: change_direction is ordered before move_snake
Before_TurnFirst == {<<"wall_collision", "change_direction">>,
                     <<"change_direction", "move_snake">>,
                     <<"wall_collision", "move_snake">>,
                     <<"move_snake", "eat_apple">>,
                     <<"move_snake", "check_lost">>,
                     <<"clear_map", "setup_items">>,
                     <<"clear_map", "enter_game">>,
                     <<"setup_items", "enter_game">>}

\* <<a, b>>: a runs before b (the .before / .after constraints of main)
Before == {<<"wall_collision", "change_direction">>,
           <<"move_snake", "change_direction">>,
           <<"wall_collision", "move_snake">>,
           <<"move_snake", "eat_apple">>,
           <<"move_snake", "check_lost">>,
           <<"clear_map", "setup_items">>,
           <<"clear_map", "enter_game">>,
           <<"setup_items", "enter_game">>}

\* system s may run now
Ready(s) == /\ pc = "update"
            /\ ~panicked
            /\ s \in SystemsOf(state) \ done
            /\ \A p \in SystemsOf(state) : <<p, s>> \in Before => p \in done

\* ------------------------------------------------------- deferred commands
SpawnCmd(e, p, h) == [op |-> "spawn", e |-> {e}, pos |-> p, head |-> h]

DespawnCmd(es) == [op |-> "despawn", e |-> es, pos |-> Pos(0, 0), head |-> FALSE]

SpawnAppleCmd == [op |-> "spawn_apple", e |-> {}, pos |-> AppleSpawnPos, head |-> FALSE]

DespawnAppleCmd == [op |-> "despawn_apple", e |-> {}, pos |-> Pos(0, 0), head |-> FALSE]

\* entities reserved by the spawn commands of a queue
Reserved(q) == UNION {q[i].e : i \in {j \in 1..Len(q) : q[j].op = "spawn"}}

Min(S) == CHOOSE m \in S : \A n \in S : m <= n

\* commands.spawn(..).id(): a handle that is neither alive nor reserved
FreshEntity(alive, q) == Min(EntityIds \ (alive \cup Reserved(q)))

\* the world (Body translations, Head markers, Apple translations) after
\* the commands of q have been applied in order, starting at command i
RECURSIVE ApplyCmds(_, _, _, _, _)
ApplyCmds(q, i, t, h, a) ==
    IF i > Len(q) THEN [transform |-> t, head |-> h, apple |-> a]
    ELSE LET c == q[i] IN
         IF c.op = "spawn" THEN
            ApplyCmds(q, i + 1,
                      [e \in DOMAIN t \cup c.e |-> IF e \in c.e THEN c.pos ELSE t[e]],
                      IF c.head THEN h \cup c.e ELSE h, a)
         ELSE IF c.op = "despawn" THEN
            ApplyCmds(q, i + 1, [e \in DOMAIN t \ c.e |-> t[e]], h \ c.e, a)
         ELSE IF c.op = "spawn_apple" THEN
            ApplyCmds(q, i + 1, t, h, Append(a, c.pos))
         ELSE
            ApplyCmds(q, i + 1, t, h, IF a = <<>> THEN a ELSE Tail(a))

\* ------------------------------------------------------------- setup_items
\* the handles setup_items reserves, in spawn order, given the alive set
RECURSIVE SetupEntities(_, _, _)
SetupEntities(n, alive, q) ==
    IF n = 0 THEN <<>>
    ELSE LET e == FreshEntity(alive, q)
         IN  <<e>> \o SetupEntities(n - 1, alive \cup {e}, q)

\* the spawn commands setup_items queues for the handles es
SetupCmds(es) ==
    [i \in 1..Len(es) |-> SpawnCmd(es[i], SpawnPos(i), i = 1)] \o <<SpawnAppleCmd>>

\* --------------------------------------------------------------------- Init
\* The state after the Startup schedule: setup_items has run on the empty
\* Snake resource and its commands have been applied.
Init ==
    LET es == SetupEntities(InitLen, {}, <<>>)
        w  == ApplyCmds(SetupCmds(es), 1, <<>>, {}, <<>>)
    IN  /\ state = "InGame"
        /\ next_state = "None"
        /\ ids = es
        /\ dirs = [i \in 1..Len(es) |-> SpawnDir]
        /\ transform = w.transform
        /\ head = w.head
        /\ apple = w.apple
        /\ score = 0
        /\ cmds = <<>>
        /\ keys = {}
        /\ pc = "idle"
        /\ done = {}
        /\ advanced = FALSE
        /\ panicked = FALSE
        /\ prev = NoPrev

\* ---------------------------------------------------------- frame boundary
\* First / PreUpdate / StateTransition: a pending NextState is applied
\* before Update runs.  A round is followed for MaxScore eats: after the
\* last of them only the frames of a pending reset are run.
BeginFrame ==
    /\ pc = "idle"
    /\ ~panicked
    /\ score < MaxScore \/ state = "Lost" \/ next_state = "Lost"
    /\ state' = IF next_state = "None" THEN state ELSE next_state
    /\ next_state' = "None"
    /\ pc' = "update"
    /\ done' = {}
    /\ advanced' = FALSE
    /\ UNCHANGED <<ids, dirs, transform, head, apple, score, cmds, keys,
                   panicked, prev>>

\* Entity handles are opaque: the program only stores them and looks them
\* up.  EndFrame renumbers the live entities 1..n, those of Snake.ids first
\* and in that order (LiveOrder), so that every frame starts from the same
\* handles whatever handles earlier rounds used.
RECURSIVE Ascending(_)
Ascending(S) == IF S = {} THEN <<>> ELSE <<Min(S)>> \o Ascending(S \ {Min(S)})

LiveOrder(is, t) ==
    LET first == SelectSeq(is, LAMBDA e : e \in DOMAIN t)
    IN  first \o Ascending(DOMAIN t \ {first[i] : i \in 1..Len(first)})

IndexOf(order, e) == CHOOSE k \in 1..Len(order) : order[k] = e

\* End of the Update schedule: every system has run, the deferred commands
\* are applied to the world in the order they were queued.
EndFrame ==
    /\ pc = "update"
    /\ ~panicked
    /\ done = SystemsOf(state)
    /\ LET w == ApplyCmds(cmds, 1, transform, head, apple)
           order == LiveOrder(ids, w.transform)
       IN  /\ transform' = [k \in 1..Len(order) |-> w.transform[order[k]]]
           /\ head' = {k \in 1..Len(order) : order[k] \in w.head}
           /\ ids' = [i \in 1..Len(ids) |->
                         IF ids[i] \in DOMAIN w.transform
                         THEN IndexOf(order, ids[i]) ELSE ids[i]]
           /\ apple' = w.apple
    /\ cmds' = <<>>
    /\ keys' = {}
    /\ pc' = "idle"
    /\ done' = {}
    /\ advanced' = FALSE
    /\ UNCHANGED <<state, next_state, dirs, score, panicked, prev>>

\* ---------------------------------------------------------- wall_collision
\* variant: strict comparisons against the limit
Wrap_Strict(c) ==
    LET c1 == IF c > Limit THEN -WALL_SIZE ELSE c
    IN  IF c1 < -Limit THEN WALL_SIZE ELSE c1

\* the four ifs on one coordinate, in source order
Wrap(c) ==
    LET c1 == IF c >= Limit THEN -WALL_SIZE ELSE c
    IN  IF c1 <= -Limit THEN WALL_SIZE ELSE c1

WrapPos(p) == Pos(Wrap(p.x), Wrap(p.y))

WallCollision ==
    /\ Ready("wall_collision")
    /\ transform' = [e \in DOMAIN transform |-> WrapPos(transform[e])]
    /\ done' = done \cup {"wall_collision"}
    /\ UNCHANGED <<state, next_state, ids, dirs, head, apple, score, cmds,
                   keys, pc, advanced, panicked, prev>>

\* -------------------------------------------------------------- move_snake
\* zip(&parts.ids, &parts.dirs) stops at the shorter of the two
ZipLen(is, ds) == IF Len(is) < Len(ds) THEN Len(is) ELSE Len(ds)

\* variant: every segment is translated by the head's direction
MovedTransform_HeadDir(t, is, ds) ==
    [e \in DOMAIN t |->
        IF \E i \in 1..ZipLen(is, ds) : is[i] = e
        THEN Pos(t[e].x + ds[1].x, t[e].y + ds[1].y)
        ELSE t[e]]

\* the for loop: every zipped entity is translated by its own direction
MovedTransform(t, is, ds) ==
    [e \in DOMAIN t |->
        IF \E i \in 1..ZipLen(is, ds) : is[i] = e
        THEN LET i == CHOOSE j \in 1..ZipLen(is, ds) : is[j] = e
             IN  Pos(t[e].x + ds[i].x, t[e].y + ds[i].y)
        ELSE t[e]]

\* parts.dirs.pop_back()
PopBack(ds) == IF ds = <<>> THEN ds ELSE SubSeq(ds, 1, Len(ds) - 1)

\* variant: the front element is not pushed again
RotateDirs_NoPush(ds) == PopBack(ds)

\* pop_back(); let front = *front().unwrap(); push_front(front)
RotateDirs(ds) == <<PopBack(ds)[1]>> \o PopBack(ds)

\* query.get_mut(*entity).unwrap() or front().unwrap() panics
MoveSnakePanics ==
    \/ \E i \in 1..ZipLen(ids, dirs) : ids[i] \notin DOMAIN transform
    \/ PopBack(dirs) = <<>>

MoveSnake ==
    /\ Ready("move_snake")
    /\ done' = done \cup {"move_snake"}
    /\ advanced' = TRUE
    /\ IF MoveSnakePanics
       THEN /\ panicked' = TRUE
            /\ UNCHANGED <<transform, dirs, prev>>
       ELSE /\ transform' = MovedTransform(transform, ids, dirs)
            /\ dirs' = RotateDirs(dirs)
            /\ prev' = [pos |-> [i \in 1..Len(ids) |-> transform'[ids[i]]],
                        dir |-> dirs[1]]
            /\ UNCHANGED panicked
    /\ UNCHANGED <<state, next_state, ids, head, apple, score, cmds, keys, pc>>

\* the on_timer(0.10 s) run condition is false in this frame
MoveSnakeSkip ==
    /\ Ready("move_snake")
    /\ done' = done \cup {"move_snake"}
    /\ UNCHANGED <<state, next_state, ids, dirs, transform, head, apple,
                   score, cmds, keys, pc, advanced, panicked, prev>>

\* -------------------------------------------------------- change_direction
\* variant: Left is accepted whatever the current axis
Turn_LeftUnguarded(d, ks) ==
    LET d1 == IF "Left" \in ks THEN Direction(-STEP, 0) ELSE d
        d2 == IF "Right" \in ks /\ d1.x = 0 THEN Direction(STEP, 0) ELSE d1
        d3 == IF "Up" \in ks /\ d2.y = 0 THEN Direction(0, STEP) ELSE d2
        d4 == IF "Down" \in ks /\ d3.y = 0 THEN Direction(0, -STEP) ELSE d3
    IN  d4

\* the four ifs applied in source order to the head's direction
Turn(d, ks) ==
    LET d1 == IF "Left" \in ks /\ d.x = 0 THEN Direction(-STEP, 0) ELSE d
        d2 == IF "Right" \in ks /\ d1.x = 0 THEN Direction(STEP, 0) ELSE d1
        d3 == IF "Up" \in ks /\ d2.y = 0 THEN Direction(0, STEP) ELSE d2
        d4 == IF "Down" \in ks /\ d3.y = 0 THEN Direction(0, -STEP) ELSE d3
    IN  d4

\* keyboard_input is the frame's set of pressed keys; change_direction is its
\* only reader, so the set is drawn here and kept in keys until EndFrame.
ChangeDirection ==
    /\ Ready("change_direction")
    /\ done' = done \cup {"change_direction"}
    /\ \E k \in SUBSET Keys :
          /\ keys' = k
          /\ IF dirs = <<>>
             THEN /\ panicked' = TRUE
                  /\ UNCHANGED dirs
             ELSE /\ dirs' = [dirs EXCEPT ![1] = Turn(dirs[1], k)]
                  /\ UNCHANGED panicked
    /\ UNCHANGED <<state, next_state, ids, transform, head, apple, score,
                   cmds, pc, advanced, prev>>

\* --------------------------------------------------------------- eat_apple
\* variant: the range includes its upper end (-WALL_SIZE..=WALL_SIZE)
Cells_Inclusive == {c \in -WALL_SIZE .. WALL_SIZE : (c + WALL_SIZE) % STEP = 0}

\* (-WALL_SIZE..WALL_SIZE).step_by(STEP as usize)
Cells == {c \in -WALL_SIZE .. (WALL_SIZE - 1) : (c + WALL_SIZE) % STEP = 0}

\* `x as i16`: the saturating float-to-int cast, exact on in-range integers
AsI16(v) == IF v > 32767 THEN 32767 ELSE IF v < -32768 THEN -32768 ELSE v

\* .filter(|i| body.iter().map(|pos| pos.translation.x).any(|x| *i != x as i16))
XDist(t) == {i \in Cells : \E e \in DOMAIN t : i # AsI16(t[e].x)}

YDist(t) == {i \in Cells : \E e \in DOMAIN t : i # AsI16(t[e].y)}

\* Query::single(): the one entity of a set (panics unless exactly one)
Single(S) == CHOOSE e \in S : TRUE

\* variant: the new segment is put ahead of the tail
NewTailPos_Ahead(tail_pos, tail_dir) == Pos(tail_pos.x + tail_dir.x, tail_pos.y + tail_dir.y)

\* snake.add_entity's spawn position: tail_pos - tail_dir
NewTailPos(tail_pos, tail_dir) == Pos(tail_pos.x - tail_dir.x, tail_pos.y - tail_dir.y)

\* apple.single_mut() / head.single() panics
EatQueriesPanic == Len(apple) # 1 \/ Cardinality(head) # 1

\* variant: only the x difference is compared
EatFires_XOnly ==
    ~EatQueriesPanic /\ Abs(apple[1].x - transform[Single(head)].x) < 1

\* the head is on the apple
EatFires == ~EatQueriesPanic /\ Coincide(apple[1], transform[Single(head)])

\* an unwrap() inside the eat branch panics
EatBranchPanics ==
    \/ ids = <<>>
    \/ dirs = <<>>
    \/ ids[Len(ids)] \notin DOMAIN transform
    \/ XDist(transform) = {}
    \/ YDist(transform) = {}

\* the history after a growth: the former tail is where it was at the growth
Grown(h, tail_pos, new_pos) ==
    IF h.pos = <<>> THEN h
    ELSE [h EXCEPT !.pos = [h.pos EXCEPT ![Len(h.pos)] = tail_pos] \o <<new_pos>>]

\* variant: the new segment is spawned at once, not by a deferred command
EatApple_SpawnsAtOnce ==
    /\ Ready("eat_apple")
    /\ done' = done \cup {"eat_apple"}
    /\ IF EatQueriesPanic \/ (EatFires /\ EatBranchPanics)
       THEN /\ panicked' = TRUE
            /\ UNCHANGED <<ids, dirs, apple, score, transform, prev>>
       ELSE IF EatFires
       THEN LET tail_id == ids[Len(ids)]
                tail_dir == dirs[Len(dirs)]
                tail_pos == transform[tail_id]
                new_tail_id == FreshEntity(DOMAIN transform, cmds)
            IN  /\ transform' = [e \in DOMAIN transform \cup {new_tail_id} |->
                                    IF e = new_tail_id
                                    THEN NewTailPos(tail_pos, tail_dir)
                                    ELSE transform[e]]
                /\ ids' = Append(ids, new_tail_id)
                /\ dirs' = Append(dirs, tail_dir)
                /\ \E ax \in XDist(transform), ay \in YDist(transform) :
                       apple' = <<Pos(ax, ay)>>
                /\ score' = score + 1
                /\ prev' = Grown(prev, tail_pos, NewTailPos(tail_pos, tail_dir))
                /\ UNCHANGED panicked
       ELSE UNCHANGED <<ids, dirs, apple, score, transform, panicked, prev>>
    /\ UNCHANGED <<state, next_state, cmds, head, keys, pc, advanced>>

EatApple ==
    /\ Ready("eat_apple")
    /\ done' = done \cup {"eat_apple"}
    /\ IF EatQueriesPanic \/ (EatFires /\ EatBranchPanics)
       THEN /\ panicked' = TRUE
            /\ UNCHANGED <<ids, dirs, apple, score, cmds, prev>>
       ELSE IF EatFires
       THEN LET tail_id == ids[Len(ids)]
                tail_dir == dirs[Len(dirs)]
                tail_pos == transform[tail_id]
                new_tail_id == FreshEntity(DOMAIN transform, cmds)
            IN  /\ cmds' = Append(cmds, SpawnCmd(new_tail_id,
                                                 NewTailPos(tail_pos, tail_dir), FALSE))
                /\ ids' = Append(ids, new_tail_id)
                /\ dirs' = Append(dirs, tail_dir)
                /\ \E ax \in XDist(transform), ay \in YDist(transform) :
                       apple' = <<Pos(ax, ay)>>
                /\ score' = score + 1
                /\ prev' = Grown(prev, tail_pos, NewTailPos(tail_pos, tail_dir))
                /\ UNCHANGED panicked
       ELSE UNCHANGED <<ids, dirs, apple, score, cmds, panicked, prev>>
    /\ UNCHANGED <<state, next_state, transform, head, keys, pc, advanced>>

\* -------------------------------------------------------------- check_lost
\* variant: the Without<Head> filter is missing
HeadOnBody_AnyBody(t, h) == \E e \in DOMAIN t : Coincide(t[Single(h)], t[e])

\* some Body entity without Head is at the head's translation
HeadOnBody(t, h) == \E e \in DOMAIN t \ h : Coincide(t[Single(h)], t[e])

CheckLost ==
    /\ Ready("check_lost")
    /\ done' = done \cup {"check_lost"}
    /\ IF Cardinality(head) # 1
       THEN /\ panicked' = TRUE
            /\ UNCHANGED next_state
       ELSE /\ next_state' = IF HeadOnBody(transform, head) THEN "Lost" ELSE next_state
            /\ UNCHANGED panicked
    /\ UNCHANGED <<state, ids, dirs, transform, head, apple, score, cmds,
                   keys, pc, advanced, prev>>

\* ------------------------------------------ clear_map / setup_items / enter_game
\* variant: snake.clear() is missing
ClearMap_KeepSnake ==
    /\ Ready("clear_map")
    /\ done' = done \cup {"clear_map"}
    /\ IF Len(apple) # 1
       THEN /\ panicked' = TRUE
            /\ UNCHANGED <<cmds, ids, dirs, score, prev>>
       ELSE /\ cmds' = cmds \o <<DespawnCmd(DOMAIN transform), DespawnAppleCmd>>
            /\ score' = 0
            /\ prev' = NoPrev
            /\ UNCHANGED <<ids, dirs, panicked>>
    /\ UNCHANGED <<state, next_state, transform, head, apple, keys, pc, advanced>>

\* variant: the score is not reset
ClearMap_KeepScore ==
    /\ Ready("clear_map")
    /\ done' = done \cup {"clear_map"}
    /\ IF Len(apple) # 1
       THEN /\ panicked' = TRUE
            /\ UNCHANGED <<cmds, ids, dirs, score, prev>>
       ELSE /\ cmds' = cmds \o <<DespawnCmd(DOMAIN transform), DespawnAppleCmd>>
            /\ ids' = <<>>
            /\ dirs' = <<>>
            /\ prev' = NoPrev
            /\ UNCHANGED <<score, panicked>>
    /\ UNCHANGED <<state, next_state, transform, head, apple, keys, pc, advanced>>

ClearMap ==
    /\ Ready("clear_map")
    /\ done' = done \cup {"clear_map"}
    /\ IF Len(apple) # 1
       THEN /\ panicked' = TRUE
            /\ UNCHANGED <<cmds, ids, dirs, score, prev>>
       ELSE /\ cmds' = cmds \o <<DespawnCmd(DOMAIN transform), DespawnAppleCmd>>
            /\ ids' = <<>>
            /\ dirs' = <<>>
            /\ score' = 0
            /\ prev' = NoPrev
            /\ UNCHANGED panicked
    /\ UNCHANGED <<state, next_state, transform, head, apple, keys, pc, advanced>>

SetupItems ==
    /\ Ready("setup_items")
    /\ done' = done \cup {"setup_items"}
    /\ LET es == SetupEntities(InitLen, DOMAIN transform, cmds)
       IN  /\ ids' = ids \o es
           /\ dirs' = dirs \o [i \in 1..Len(es) |-> SpawnDir]
           /\ cmds' = cmds \o SetupCmds(es)
    /\ UNCHANGED <<state, next_state, transform, head, apple, score, keys,
                   pc, advanced, panicked, prev>>

EnterGame ==
    /\ Ready("enter_game")
    /\ done' = done \cup {"enter_game"}
    /\ next_state' = "InGame"
    /\ UNCHANGED <<state, ids, dirs, transform, head, apple, score, cmds,
                   keys, pc, advanced, panicked, prev>>

\* -------------------------------------------------------------------- Spec
Next ==
    \/ BeginFrame
    \/ WallCollision
    \/ MoveSnake
    \/ MoveSnakeSkip
    \/ ChangeDirection
    \/ EatApple
    \/ CheckLost
    \/ ClearMap
    \/ SetupItems
    \/ EnterGame
    \/ EndFrame

Spec == Init /\ [][Next]_vars

\* App::run keeps running frames and a frame runs every system of its
\* schedule: a step that can be taken is eventually taken
FairSpec == Spec /\ WF_vars(Next)

\* ------------------------------------------------------------------- types
TypeOK ==
    /\ state \in {"InGame", "Lost"}
    /\ next_state \in {"None", "InGame", "Lost"}
    /\ score \in 0..MaxScore
    /\ pc \in {"idle", "update"}
    /\ DOMAIN transform \subseteq EntityIds
    /\ head \subseteq DOMAIN transform

\* ================================================================= claims
\* system s runs (or is skipped) in this step
Step(s) == pc = "update" /\ s \notin done /\ s \in done'

\* move_snake runs with its timer condition true and does not panic
AdvanceStep == Step("move_snake") /\ advanced' /\ ~panicked'

\* between two frames
FrameBoundary == pc = "idle"

\* ---------------------------------------------------------------------- C1
\* C1: at every frame boundary the segment list and the direction queue
\* have the same length, at least 1, and whenever move_snake is about to
\* run the queue is still non-empty after its pop_back.
C1_SameLength ==
    /\ FrameBoundary => (Len(ids) = Len(dirs) /\ Len(ids) >= 1)
    /\ Ready("move_snake") => Len(dirs) >= 2
    /\ ~panicked

\* a frame boundary of a round in which the snake has eaten and advanced
C1_Witness ==
    /\ FrameBoundary
    /\ state = "InGame"
    /\ score >= 1
    /\ Len(ids) = InitLen + score
    /\ Len(dirs) = InitLen + score

\* ---------------------------------------------------------------------- C2
\* the direction a single key asks for
Requested(k) ==
    IF k = "Left" THEN Direction(-STEP, 0)
    ELSE IF k = "Right" THEN Direction(STEP, 0)
    ELSE IF k = "Up" THEN Direction(0, STEP)
    ELSE Direction(0, -STEP)

SameAxis(d, r) == (d.x # 0 /\ r.x # 0) \/ (d.y # 0 /\ r.y # 0)

\* C2: when change_direction runs with exactly one key pressed, directions[0]
\* is unchanged if the requested direction is on the head's current axis and
\* becomes the requested direction if it is on the other axis; no other
\* queue entry and no position changes.
C2_SingleTurn ==
    [][(Step("change_direction") /\ Cardinality(keys') = 1) =>
          LET req == Requested(CHOOSE k \in keys' : TRUE)
          IN  /\ ~panicked'
              /\ Len(dirs') = Len(dirs)
              /\ dirs'[1] = IF SameAxis(dirs[1], req) THEN dirs[1] ELSE req
              /\ \A i \in 2..Len(dirs) : dirs'[i] = dirs[i]
              /\ transform' = transform
              /\ ids' = ids
              /\ apple' = apple]_vars

\* change_direction has just turned a head that moved right to Up
C2_Witness ==
    /\ pc = "update"
    /\ "change_direction" \in done
    /\ keys = {"Up"}
    /\ dirs[1] = Direction(0, STEP)
    /\ dirs[2] = Direction(STEP, 0)

\* ---------------------------------------------------------------------- C3
\* C3 (as stated): in every InGame frame in which the snake advances the
\* turn of that frame has been written before the advance.
C3_TurnBeforeAdvance ==
    (state = "InGame" /\ pc = "update" /\ advanced) => "change_direction" \in done

\* C3 (amended): in every InGame frame the order is wrap, then advance (when
\* the timer fires), then turn; the head advances by the direction it held
\* before this frame's turn.
C3_AdvanceBeforeTurn ==
    [][/\ Step("move_snake") =>
            ("wall_collision" \in done /\ "change_direction" \notin done)
       /\ Step("change_direction") =>
            ("wall_collision" \in done /\ "move_snake" \in done)
       /\ AdvanceStep =>
            transform'[ids[1]] = Pos(transform[ids[1]].x + dirs[1].x,
                                     transform[ids[1]].y + dirs[1].y)]_vars

\* a frame that advanced and then turned: the head's new direction differs
\* from the one it has just moved by
C3_Witness ==
    /\ state = "InGame"
    /\ pc = "update"
    /\ advanced
    /\ "change_direction" \in done
    /\ keys # {}
    /\ dirs[1] # dirs[2]

\* ---------------------------------------------------------------------- C4
\* C4: an advance moves every segment i by its own pre-advance direction and
\* leaves the queue as [old[0]] ++ old[0..len-1]; between advances no InGame
\* step changes an entry other than the head's (growth only appends), so the
\* direction the head used on one advance is the one segment i uses i
\* advances later.
C4_AdvanceShifts ==
    [][/\ AdvanceStep =>
            /\ ids' = ids
            /\ \A i \in 1..Len(ids) :
                 transform'[ids[i]] = Pos(transform[ids[i]].x + dirs[i].x,
                                          transform[ids[i]].y + dirs[i].y)
            /\ Len(dirs') = Len(dirs)
            /\ dirs'[1] = dirs[1]
            /\ \A i \in 2..Len(dirs) : dirs'[i] = dirs[i - 1]
       /\ (state = "InGame" /\ ~Step("move_snake")) =>
            /\ Len(dirs') >= Len(dirs)
            /\ \A i \in 2..Len(dirs) : dirs'[i] = dirs[i]]_vars

\* an advance has just been made by a snake of three segments whose tail
\* still moves in another direction than the segment ahead of it
C4_Witness ==
    /\ state = "InGame"
    /\ pc = "update"
    /\ advanced
    /\ "change_direction" \notin done
    /\ Len(dirs) >= 3
    /\ dirs[1] = dirs[2]
    /\ dirs[2] # dirs[3]

\* ---------------------------------------------------------------------- C5
\* what wall_collision must do to one coordinate
WrappedAs(c, c2) ==
    /\ c = Limit => c2 = -WALL_SIZE
    /\ c = -Limit => c2 = WALL_SIZE
    /\ (-Limit < c /\ c < Limit) => c2 = c
    /\ -WALL_SIZE <= c2 /\ c2 <= WALL_SIZE

\* C5: wall_collision maps, for every segment and each axis independently,
\* half_extent + step to -half_extent, -(half_extent + step) to
\* +half_extent, leaves a coordinate strictly between unchanged, and so
\* leaves every coordinate in [-half_extent, half_extent].
C5_Wrap ==
    [][Step("wall_collision") =>
          /\ DOMAIN transform' = DOMAIN transform
          /\ \A e \in DOMAIN transform :
               /\ WrappedAs(transform[e].x, transform'[e].x)
               /\ WrappedAs(transform[e].y, transform'[e].y)]_vars

\* wall_collision has just run on a head that had advanced rightwards to
\* half_extent + step: the head is at -half_extent, the next segment still
\* at +half_extent
C5_Witness ==
    /\ state = "InGame"
    /\ pc = "update"
    /\ done = {"wall_collision"}
    /\ Len(ids) >= 2
    /\ dirs[2] = Direction(STEP, 0)
    /\ transform[ids[1]].x = -WALL_SIZE
    /\ transform[ids[2]].x = WALL_SIZE
    /\ transform[ids[1]].y = transform[ids[2]].y

\* ---------------------------------------------------------------------- C6
\* the head is exactly at the position of another spawned segment
HeadMeetsSegment ==
    \E e \in DOMAIN transform : e # ids[1] /\ transform[e] = transform[ids[1]]

\* C6: in an InGame frame the Lost phase is requested if and only if, when
\* check_lost has run (after the advance of the frame, if any), the head is
\* at the position of at least one other segment.
C6_LostIffCollision ==
    (state = "InGame" /\ pc = "update" /\ "check_lost" \in done) =>
        /\ ~panicked
        /\ (next_state = "Lost") <=> HeadMeetsSegment
        /\ next_state \in {"None", "Lost"}

\* check_lost has requested Lost after an advance
C6_Witness ==
    /\ state = "InGame"
    /\ pc = "update"
    /\ advanced
    /\ "check_lost" \in done
    /\ next_state = "Lost"
    /\ HeadMeetsSegment

\* ---------------------------------------------------------------------- C7
\* C7: when eat_apple runs with the head on the apple, exactly one segment
\* is appended (ids and dirs each grow by one, one spawn is queued), the
\* score grows by one and no existing segment's position or direction
\* changes; otherwise eat_apple changes nothing.
C7_EatGrowsByOne ==
    [][Step("eat_apple") =>
          /\ ~panicked'
          /\ IF transform[ids[1]] = apple[1]
             THEN /\ Len(ids') = Len(ids) + 1
                  /\ Len(dirs') = Len(dirs) + 1
                  /\ SubSeq(ids', 1, Len(ids)) = ids
                  /\ SubSeq(dirs', 1, Len(dirs)) = dirs
                  /\ ids'[Len(ids')] \notin DOMAIN transform
                  /\ Len(cmds') = Len(cmds) + 1
                  /\ cmds'[Len(cmds')].op = "spawn"
                  /\ cmds'[Len(cmds')].e = {ids'[Len(ids')]}
                  /\ score' = score + 1
                  /\ transform' = transform
             ELSE UNCHANGED <<ids, dirs, transform, head, apple, score, cmds>>]_vars

\* eat_apple has just grown the snake
C7_Witness ==
    /\ state = "InGame"
    /\ pc = "update"
    /\ "eat_apple" \in done
    /\ cmds # <<>>
    /\ score = 1
    /\ Len(ids) = InitLen + 1

\* ---------------------------------------------------------------------- C8
\* the apple has just been placed: eat_apple has grown the snake in this
\* frame, or a round is about to start
AppleJustPlaced ==
    \/ state = "InGame" /\ pc = "update" /\ "eat_apple" \in done /\ cmds # <<>>
    \/ pc = "idle" /\ next_state = "InGame"
    \/ pc = "idle" /\ score = 0 /\ \A i \in 1..Len(ids) : transform[ids[i]] = SpawnPos(i)

\* C8: immediately after the apple is placed (round start and every
\* re-placement on an eat) no body segment is at the apple's position.
C8_AppleOffBody ==
    AppleJustPlaced =>
        \A e \in DOMAIN transform : \A i \in 1..Len(apple) : transform[e] # apple[i]

\* ---------------------------------------------------------------------- C9
\* C9: when eat_apple re-places the apple it does not panic, each axis has a
\* candidate, each new coordinate is a multiple of step in
\* [-half_extent, half_extent), and the new position does not have the x of
\* every occupied segment together with the y of every occupied segment.
C9_Replacement ==
    [][(Step("eat_apple") /\ transform[ids[1]] = apple[1]) =>
          /\ ~panicked'
          /\ DOMAIN transform # {}
          /\ \E c \in -WALL_SIZE .. (WALL_SIZE - 1) :
                c % STEP = 0 /\ \E e \in DOMAIN transform : transform[e].x # c
          /\ \E c \in -WALL_SIZE .. (WALL_SIZE - 1) :
                c % STEP = 0 /\ \E e \in DOMAIN transform : transform[e].y # c
          /\ Len(apple') = 1
          /\ apple'[1].x % STEP = 0
          /\ apple'[1].y % STEP = 0
          /\ -WALL_SIZE <= apple'[1].x /\ apple'[1].x < WALL_SIZE
          /\ -WALL_SIZE <= apple'[1].y /\ apple'[1].y < WALL_SIZE
          /\ ~(/\ \A e \in DOMAIN transform : transform[e].x = apple'[1].x
               /\ \A e \in DOMAIN transform : transform[e].y = apple'[1].y)]_vars

\* eat_apple has just moved the apple away from its spawn cell while all
\* segments share one y, which the filter removed from the candidates
C9_Witness ==
    /\ state = "InGame"
    /\ pc = "update"
    /\ "eat_apple" \in done
    /\ cmds # <<>>
    /\ apple[1] # AppleSpawnPos
    /\ \A e \in DOMAIN transform : transform[e].y = transform[ids[1]].y
    /\ apple[1].y # transform[ids[1]].y

\* --------------------------------------------------------------------- C10
\* C10: the step that takes the phase from Lost to InGame leaves the
\* game-start state: score 0, the initial number of segments with as many
\* directions, every segment at its initial position with direction +step
\* on x, the apple alone at its initial cell and on no segment.
C10_ResetToStart ==
    [][(state = "Lost" /\ state' = "InGame") =>
          /\ score' = 0
          /\ Len(ids') = InitLen
          /\ Len(dirs') = InitLen
          /\ DOMAIN transform' = {ids'[i] : i \in 1..InitLen}
          /\ head' = {ids'[1]}
          /\ transform'[ids'[1]] = Pos(WALL_SIZE - STEP, -WALL_SIZE)
          /\ \A i \in 2..InitLen :
               transform'[ids'[i]] = Pos(WALL_SIZE - i * STEP, -WALL_SIZE)
          /\ \A i \in 1..InitLen : dirs'[i] = Direction(STEP, 0)
          /\ apple' = <<Pos(0, 0)>>
          /\ \A e \in DOMAIN transform' : transform'[e] # Pos(0, 0)
          /\ cmds' = <<>>
          /\ ~panicked']_vars

\* the Lost frame has ended and InGame is requested
C10_Witness ==
    /\ state = "Lost"
    /\ pc = "idle"
    /\ next_state = "InGame"
    /\ score = 0
    /\ Len(ids) = InitLen

\* a reset starts from a round in which the snake has grown
ResetFromGrown ==
    /\ state = "Lost"
    /\ pc = "update"
    /\ done = {}
    /\ score >= 1
    /\ Len(ids) > InitLen

\* --------------------------------------------------------------------- C11
\* the steps of a Lost frame: which systems run, in which order, and what
\* the frame leaves requested
C11_LostFrame ==
    [][/\ \A s \in InGameSystems : Step(s) => state = "InGame"
       /\ \A s \in LostSystems : Step(s) => state = "Lost"
       /\ Step("setup_items") => done = {"clear_map"}
       /\ Step("enter_game") => done = {"clear_map", "setup_items"}
       /\ (state = "Lost" /\ pc = "update") => keys' = keys \/ pc' = "idle"
       /\ (state = "Lost" /\ pc = "update" /\ pc' = "idle")
             => done = LostSystems /\ next_state = "InGame"
       /\ (state = "Lost" /\ pc = "idle" /\ pc' = "update")
             => state' = "InGame"
       /\ (state = "InGame" /\ state' = "Lost")
             => pc = "idle" /\ pc' = "update" /\ done' = {}]_vars

\* C11: a Lost frame runs clear_map, then setup_items, then enter_game, each
\* once, and no InGame system; it ends with InGame requested, so the frame
\* after it is an InGame frame; the Lost frame reads no key, and the phase
\* Lost always leads back to InGame.
C11_ResetOnce == C11_LostFrame /\ ((state = "Lost") ~> (state = "InGame"))

\* the three Lost systems have run in a Lost frame
C11_Witness ==
    /\ state = "Lost"
    /\ pc = "update"
    /\ done = LostSystems
    /\ next_state = "InGame"
    /\ ~panicked

\* --------------------------------------------------------------------- C12
\* C12: when eat_apple grows the snake it runs after move_snake, appends the
\* new segment at the end of ids, queues its spawn at the tail's position
\* minus the last entry of dirs as eat_apple finds it, and appends that same
\* entry to dirs; the end of the frame spawns the segment there, without Head.
C12_NewTail ==
    [][/\ (Step("eat_apple") /\ Len(cmds') = Len(cmds) + 1) =>
             /\ "move_snake" \in done
             /\ SubSeq(ids', 1, Len(ids)) = ids
             /\ Len(ids') = Len(ids) + 1
             /\ cmds'[Len(cmds')].e = {ids'[Len(ids')]}
             /\ cmds'[Len(cmds')].pos.x
                   = transform[ids[Len(ids)]].x - dirs[Len(dirs)].x
             /\ cmds'[Len(cmds')].pos.y
                   = transform[ids[Len(ids)]].y - dirs[Len(dirs)].y
             /\ dirs' = Append(dirs, dirs[Len(dirs)])
       /\ (state = "InGame" /\ pc = "update" /\ pc' = "idle" /\ cmds # <<>>) =>
             /\ Len(cmds) = 1
             /\ transform'[ids'[Len(ids')]] = cmds[1].pos
             /\ ids'[Len(ids')] \notin head'
             /\ \A i \in 1..(Len(ids) - 1) :
                   transform'[ids'[i]] = transform[ids[i]]]_vars

\* the snake has grown in a frame with an advance, behind a tail whose
\* entry is vertical
C12_Witness ==
    /\ state = "InGame"
    /\ pc = "update"
    /\ advanced
    /\ "eat_apple" \in done
    /\ Len(cmds) = 1
    /\ dirs[Len(dirs)].x = 0
    /\ dirs[Len(dirs) - 1] = dirs[Len(dirs)]
    /\ cmds[1].pos = Pos(transform[ids[Len(ids) - 1]].x,
                         transform[ids[Len(ids) - 1]].y - dirs[Len(dirs)].y)

\* --------------------------------------------------------------------- C13
Opposite(d) == Direction(-d.x, -d.y)

\* C13: the direction move_snake moves the head by is never the opposite of
\* the direction it moved the head by on the previous advance of the round.
C13_NoReversal ==
    [][(AdvanceStep /\ prev # NoPrev) => dirs[1] # Opposite(prev.dir)]_vars

\* --------------------------------------------------------------------- C14
\* C14: after every advance but the first of a round, each non-head segment
\* is at the position its predecessor had at the end of the previous advance
\* (for a segment grown since: the position the former tail had at the growth).
C14_FollowsPredecessor ==
    [][(AdvanceStep /\ prev # NoPrev) =>
          \A i \in 2..Len(ids) : transform'[ids[i]] = prev.pos[i - 1]]_vars

\* --------------------------------------------------------------------- C15
\* C15: while the phase is InGame the segment list and the direction queue
\* hold the initial spawn count plus the score, and at a frame boundary that
\* many segments are spawned.
C15_LengthIsScore ==
    state = "InGame" =>
        /\ Len(ids) = InitLen + score
        /\ Len(dirs) = InitLen + score
        /\ FrameBoundary => Cardinality(DOMAIN transform) = InitLen + score

\* a frame boundary of a round in which the snake has grown to its bound
C15_Witness ==
    /\ state = "InGame"
    /\ FrameBoundary
    /\ next_state = "None"
    /\ score = MaxScore
    /\ Cardinality(DOMAIN transform) = InitLen + MaxScore

\* --------------------------------------------------------------------- C16
\* a coordinate on the lattice, at most one step outside the grid
OnLattice(c) == c % STEP = 0 /\ -Limit <= c /\ c <= Limit

AxisVectors == {Direction(STEP, 0), Direction(-STEP, 0),
                Direction(0, STEP), Direction(0, -STEP)}

\* C16: every coordinate of every spawned segment and of every segment whose
\* spawn is queued is a multiple of STEP within -Limit..Limit, and every
\* entry of dirs is one of the four axis vectors of magnitude STEP.
C16_OnLattice ==
    /\ \A e \in DOMAIN transform :
          OnLattice(transform[e].x) /\ OnLattice(transform[e].y)
    /\ \A k \in 1..Len(cmds) :
          cmds[k].op = "spawn" =>
              OnLattice(cmds[k].pos.x) /\ OnLattice(cmds[k].pos.y)
    /\ \A i \in 1..Len(dirs) : dirs[i] \in AxisVectors

\* --------------------------------------------------------------------- C17
\* C17: the position at which eat_apple queues the spawn of the new segment
\* is not the position of any spawned segment, the head included.
C17_GrowthOffBody ==
    \A k \in 1..Len(cmds) :
        (state = "InGame" /\ cmds[k].op = "spawn") =>
            \A e \in DOMAIN transform : ~Coincide(cmds[k].pos, transform[e])

\* --------------------------------------------------------------------- C18
\* what check_lost requests when it runs on transforms t, head h, request ns
LostAfter(t, h, ns) == IF HeadOnBody(t, h) THEN "Lost" ELSE ns

\* C18: in an InGame frame eat_apple and check_lost commute. eat_apple
\* changes nothing check_lost reads or writes, so check_lost requests the
\* same phase after it as before it; check_lost changes nothing eat_apple
\* reads or writes and only sets the request; neither stops the other. A
\* segment whose spawn eat_apple has queued is not among the segments
\* check_lost compares the head with.
C18_EatLostCommute ==
    [][/\ Step("eat_apple") =>
             /\ ~panicked'
             /\ UNCHANGED <<transform, head, next_state, state, pc>>
             /\ LostAfter(transform', head', next_state')
                   = LostAfter(transform, head, next_state)
       /\ Step("check_lost") =>
             /\ ~panicked'
             /\ UNCHANGED <<transform, head, apple, ids, dirs, score, cmds,
                            state, pc>>
             /\ next_state' = LostAfter(transform, head, next_state)
             /\ (next_state' = "Lost") <=>
                   \/ next_state = "Lost"
                   \/ \E i \in 2..Len(ids) :
                         /\ ids[i] \in DOMAIN transform
                         /\ Coincide(transform[ids[1]], transform[ids[i]])]_vars

\* both have run in a frame in which eat_apple queued the new segment on the
\* head's position, and no loss is requested
C18_Witness ==
    /\ state = "InGame"
    /\ pc = "update"
    /\ {"eat_apple", "check_lost"} \subseteq done
    /\ Len(cmds) = 1
    /\ cmds[1].op = "spawn"
    /\ cmds[1].pos = transform[ids[1]]
    /\ next_state = "None"
    /\ ~panicked

====
